---- MODULE Spec2Model ----
(***************************************************************************)
(* Model of the validation engine (cyclonedx-bom/src/validation.rs) and of *)
(* the configuration resolver (cargo-cyclonedx/src/toml.rs).               *)
(*                                                                         *)
(* Five specifications share the variables below; each one initialises the *)
(* variables of the other four to Idle and never changes them.             *)
(*   SpecMerge  one call of ValidationResult::merge on drawn operands      *)
(*   SpecFold   a left fold of merge over a drawn sequence of sub-results  *)
(*   SpecCtx    a tree of ValidationContext values grown by extension      *)
(*   SpecOpts   one conversion of toml::OutputOptions                      *)
(*   SpecToml   one call of config_from_toml on a drawn raw value          *)
(***************************************************************************)
EXTENDS Integers, Sequences, FiniteSets, TLC

VARIABLES
    pc,                         \* "start" before the call a specification makes, "done" after it
    lhs, rhs, merged,           \* SpecMerge: the operands and the value returned
    xs, idx, acc,               \* SpecFold: sub-results, how many are merged, accumulator
    ctx, parentOf, added,       \* SpecCtx: context of each node; ghost: parent and the components added
    options, optionsResult,     \* SpecOpts: the toml::OutputOptions value and the conversion's result
    raw, tomlResult,            \* SpecToml: the argument of config_from_toml and its result
    validPrefixes, cdxDefault   \* the answers of the code in config.rs that the resolver calls

vars == <<pc, lhs, rhs, merged, xs, idx, acc, ctx, parentOf, added,
          options, optionsResult, raw, tomlResult, validPrefixes, cdxDefault>>

mergeVars == <<lhs, rhs, merged>>
foldVars == <<xs, idx, acc>>
ctxVars == <<ctx, parentOf, added>>
optsVars == <<options, optionsResult>>
tomlVars == <<raw, tomlResult>>
envVars == <<validPrefixes, cdxDefault>>

\* Value of every variable a specification does not use, and of a result not yet computed.
\* It is never compared with anything: the formulas read a result only when pc = "done".
Idle == "idle"

(***************************************************************************)
(* Bounds                                                                  *)
(***************************************************************************)
MaxReasons == 2     \* longest reasons vector of an operand
MaxFold == 3        \* longest sequence of sub-results folded
MaxNodes == 4       \* contexts in the tree, the root included
MaxComps == 2       \* longest components vector passed to extend_context

\* All sequences over S of length at most n.
SeqsUpTo(S, n) == UNION {[1..k -> S] : k \in 0..n}

(***************************************************************************)
(* validation.rs: ValidationContext                                        *)
(***************************************************************************)

\* enum ValidationPathComponent
StructComponent(struct_name, field_name) ==
    [kind |-> "Struct", struct_name |-> struct_name, field_name |-> field_name]

ArrayComponent(index) == [kind |-> "Array", index |-> index]

EnumVariantComponent(variant_name) == [kind |-> "EnumVariant", variant_name |-> variant_name]

\* ValidationContext::default(): the empty vector of components.
ValidationContext_default == <<>>

\* Extends the receiver's own vector and returns a copy of it.
extend_context_inplace(self, components) ==
    [self |-> self \o components, ret |-> self \o components]

\* The effect of extend_context on the receiver (self) and the value returned
\* (ret): the receiver's vector is cloned, the clone is extended.
extend_context(self, components) ==
    LET extended_context == self
    IN  [self |-> self, ret |-> extended_context \o components]

extend_context_with_struct_field(self, struct_name, field_name) ==
    LET component == <<StructComponent(struct_name, field_name)>>
    IN  extend_context(self, component)

(***************************************************************************)
(* validation.rs: ValidationResult                                         *)
(***************************************************************************)

\* struct FailureReason
FailureReason(message, context) == [message |-> message, context |-> context]

\* enum ValidationResult
Passed == [tag |-> "Passed"]

Failed(reasons) == [tag |-> "Failed", reasons |-> reasons]

IsFailed(r) == r.tag = "Failed"

merge_drop_right(self, other) ==
    CASE self = Passed /\ other = Passed -> Passed
      [] self = Passed /\ IsFailed(other) -> Passed
      [] IsFailed(self) /\ other = Passed -> Failed(self.reasons)
      [] IsFailed(self) /\ IsFailed(other) -> Failed(self.reasons \o other.reasons)

merge_right_first(self, other) ==
    CASE self = Passed /\ other = Passed -> Passed
      [] self = Passed /\ IsFailed(other) -> Failed(other.reasons)
      [] IsFailed(self) /\ other = Passed -> Failed(self.reasons)
      [] IsFailed(self) /\ IsFailed(other) -> Failed(other.reasons \o self.reasons)

\* Vec::append leaves right_reasons empty; this returns it instead of left_reasons.
merge_drained(self, other) ==
    CASE self = Passed /\ other = Passed -> Passed
      [] self = Passed /\ IsFailed(other) -> Failed(other.reasons)
      [] IsFailed(self) /\ other = Passed -> Failed(self.reasons)
      [] IsFailed(self) /\ IsFailed(other) -> Failed(<<>>)

merge_short_circuit(self, other) ==
    CASE self = Passed /\ other = Passed -> Passed
      [] self = Passed /\ IsFailed(other) -> Failed(other.reasons)
      [] IsFailed(self) -> Failed(self.reasons)

\* ValidationResult::merge, one arm of the match per CASE arm.
merge(self, other) ==
    CASE self = Passed /\ other = Passed -> Passed
      [] self = Passed /\ IsFailed(other) -> Failed(other.reasons)
      [] IsFailed(self) /\ other = Passed -> Failed(self.reasons)
      [] IsFailed(self) /\ IsFailed(other) ->
            LET left_reasons == self.reasons \o other.reasons
            IN  Failed(left_reasons)

\* impl Default for ValidationResult
ValidationResult_default == Passed

(***************************************************************************)
(* Operands                                                                *)
(***************************************************************************)
FailureReasons ==
    {FailureReason("m1", ValidationContext_default),
     FailureReason("m2", <<ArrayComponent(0)>>)}

\* Every value of the type: the reasons vector of Failed may be empty
\* (the variant and its field are public, validation.rs:69-72).
ValidationResults ==
    {Passed} \cup {Failed(r) : r \in SeqsUpTo(FailureReasons, MaxReasons)}

(***************************************************************************)
(* SpecMerge: one call of merge                                            *)
(***************************************************************************)
InitMerge ==
    /\ pc = "start"
    /\ lhs \in ValidationResults
    /\ rhs \in ValidationResults
    /\ merged = Idle
    /\ xs = Idle /\ idx = Idle /\ acc = Idle
    /\ ctx = Idle /\ parentOf = Idle /\ added = Idle
    /\ options = Idle /\ optionsResult = Idle
    /\ raw = Idle /\ tomlResult = Idle
    /\ validPrefixes = Idle /\ cdxDefault = Idle

Merge ==
    /\ pc = "start"
    /\ merged' = merge(lhs, rhs)
    /\ pc' = "done"
    /\ UNCHANGED <<lhs, rhs, foldVars, ctxVars, optsVars, tomlVars, envVars>>

NextMerge == Merge

SpecMerge == InitMerge /\ [][NextMerge]_vars

(***************************************************************************)
(* SpecFold: aggregation of sub-results, acc = acc.merge(x) for each x in  *)
(* order, starting from ValidationResult::default()                        *)
(***************************************************************************)
InitFold ==
    /\ pc = "start"
    /\ xs \in SeqsUpTo(ValidationResults, MaxFold)
    /\ idx = 0
    /\ acc = ValidationResult_default
    /\ lhs = Idle /\ rhs = Idle /\ merged = Idle
    /\ ctx = Idle /\ parentOf = Idle /\ added = Idle
    /\ options = Idle /\ optionsResult = Idle
    /\ raw = Idle /\ tomlResult = Idle
    /\ validPrefixes = Idle /\ cdxDefault = Idle

FoldStep ==
    /\ idx < Len(xs)
    /\ acc' = merge(acc, xs[idx + 1])
    /\ idx' = idx + 1
    /\ pc' = IF idx + 1 = Len(xs) THEN "done" ELSE pc
    /\ UNCHANGED <<xs, mergeVars, ctxVars, optsVars, tomlVars, envVars>>

NextFold == FoldStep

SpecFold == InitFold /\ [][NextFold]_vars

(***************************************************************************)
(* SpecCtx: contexts made by extension.  ctx[1] is the root context; node  *)
(* n > 1 was made by extending ctx[parentOf[n]] with added[n].             *)
(***************************************************************************)
PathComponents ==
    {StructComponent("Bom", "metadata"), ArrayComponent(0), EnumVariantComponent("Expression")}

StructNames == {"Bom"}

FieldNames == {"metadata", "components"}

InitCtx ==
    /\ pc = "start"
    /\ ctx = <<ValidationContext_default>>
    /\ parentOf = <<0>>
    /\ added = <<ValidationContext_default>>
    /\ lhs = Idle /\ rhs = Idle /\ merged = Idle
    /\ xs = Idle /\ idx = Idle /\ acc = Idle
    /\ options = Idle /\ optionsResult = Idle
    /\ raw = Idle /\ tomlResult = Idle
    /\ validPrefixes = Idle /\ cdxDefault = Idle

ExtendContext ==
    /\ Len(ctx) < MaxNodes
    /\ \E p \in 1..Len(ctx), components \in SeqsUpTo(PathComponents, MaxComps) :
          LET r == extend_context(ctx[p], components)
          IN  /\ ctx' = Append([ctx EXCEPT ![p] = r.self], r.ret)
              /\ parentOf' = Append(parentOf, p)
              /\ added' = Append(added, components)
    /\ UNCHANGED <<pc, mergeVars, foldVars, optsVars, tomlVars, envVars>>

ExtendContextWithStructField ==
    /\ Len(ctx) < MaxNodes
    /\ \E p \in 1..Len(ctx), struct_name \in StructNames, field_name \in FieldNames :
          LET r == extend_context_with_struct_field(ctx[p], struct_name, field_name)
          IN  /\ ctx' = Append([ctx EXCEPT ![p] = r.self], r.ret)
              /\ parentOf' = Append(parentOf, p)
              /\ added' = Append(added, <<StructComponent(struct_name, field_name)>>)
    /\ UNCHANGED <<pc, mergeVars, foldVars, optsVars, tomlVars, envVars>>

NextCtx == ExtendContext \/ ExtendContextWithStructField

SpecCtx == InitCtx /\ [][NextCtx]_vars

(***************************************************************************)
(* Option<T>, Result<T, E>                                                 *)
(***************************************************************************)
None == [some |-> FALSE]

Some(x) == [some |-> TRUE, val |-> x]

Ok(v) == [ok |-> TRUE, val |-> v]

Err(e) == [ok |-> FALSE, err |-> e]

(***************************************************************************)
(* toml.rs: the types and their conversions                                *)
(***************************************************************************)

\* enum ConfigError
TomlError(msg) == [kind |-> "TomlError", msg |-> msg]

ValidationError(msg) == [kind |-> "ValidationError", msg |-> msg]

CustomPrefixError(source) == [kind |-> "CustomPrefixError", source |-> source]

\* The message of the mutual-exclusion error (toml.rs:154).
GotBoth == "OutputOptions can contain either prefix or pattern, got both"

\* config::CdxExtension: the two variants toml.rs names, and its default.
\* The default lives in config.rs; either variant may be it.
CdxExtension_Included == "CdxExtension::Included"

CdxExtension_NotIncluded == "CdxExtension::NotIncluded"

CdxExtension_default == cdxDefault

\* config::Prefix: the two variants toml.rs builds, and Prefix::default(),
\* the value of "no customization".
Prefix_Pattern(pattern) == [kind |-> "Pattern", pattern |-> pattern]

Prefix_Custom(prefix) == [kind |-> "Custom", prefix |-> prefix]

Prefix_default == [kind |-> "NoCustomization"]

\* config::CustomPrefix::new: the prefix-validity check.  validPrefixes is
\* the set of strings the check accepts.
PrefixError(prefix) == [kind |-> "PrefixError", prefix |-> prefix]

CustomPrefix_new(prefix) ==
    IF prefix \in validPrefixes
    THEN Ok([custom_prefix |-> prefix])
    ELSE Err(PrefixError(prefix))

\* SbomConfig::empty_config(): no control is set.
SbomConfig_empty_config ==
    [format |-> None, included_dependencies |-> None, output_options |-> None]

\* The two arms with their right-hand sides exchanged.
From_Pattern_swapped(val) ==
    CASE val = "Pattern::Bom" -> "config::Pattern::Package"
      [] val = "Pattern::Package" -> "config::Pattern::Bom"

\* impl From<Pattern> for config::Pattern
From_Pattern(val) ==
    CASE val = "Pattern::Bom" -> "config::Pattern::Bom"
      [] val = "Pattern::Package" -> "config::Pattern::Package"

\* impl From<IncludedDependencies> for config::IncludedDependencies
From_IncludedDependencies(val) ==
    CASE val = "IncludedDependencies::TopLevelDependencies" ->
            "config::IncludedDependencies::TopLevelDependencies"
      [] val = "IncludedDependencies::AllDependencies" ->
            "config::IncludedDependencies::AllDependencies"

\* Option::unwrap_or_default on Option<config::Prefix>
unwrap_or_default(opt) == IF opt.some THEN opt.val ELSE Prefix_default

\* The custom-prefix arm written (_, Some(prefix)): it also takes the case of both.
TryFrom_OutputOptions_prefix_first(value) ==
    LET cdx_extension ==
            CASE value.cdx_extension = Some(TRUE) -> CdxExtension_Included
              [] value.cdx_extension = Some(FALSE) -> CdxExtension_NotIncluded
              [] value.cdx_extension = None -> CdxExtension_default
        prefix ==
            CASE value.pattern.some /\ ~value.prefix.some ->
                    Ok(Some(Prefix_Pattern(From_Pattern(value.pattern.val))))
              [] value.prefix.some ->
                    LET custom == CustomPrefix_new(value.prefix.val)
                    IN  IF custom.ok
                        THEN Ok(Some(Prefix_Custom(custom.val)))
                        ELSE Err(CustomPrefixError(custom.err))
              [] ~value.pattern.some /\ ~value.prefix.some -> Ok(None)
    IN  IF prefix.ok
        THEN Ok([cdx_extension |-> cdx_extension, prefix |-> unwrap_or_default(prefix.val)])
        ELSE Err(prefix.err)

\* The arm of neither falls back to the default pattern (Pattern::default(), toml.rs:171-175).
TryFrom_OutputOptions_default_pattern(value) ==
    LET cdx_extension ==
            CASE value.cdx_extension = Some(TRUE) -> CdxExtension_Included
              [] value.cdx_extension = Some(FALSE) -> CdxExtension_NotIncluded
              [] value.cdx_extension = None -> CdxExtension_default
        prefix ==
            CASE value.pattern.some /\ ~value.prefix.some ->
                    Ok(Some(Prefix_Pattern(From_Pattern(value.pattern.val))))
              [] ~value.pattern.some /\ value.prefix.some ->
                    LET custom == CustomPrefix_new(value.prefix.val)
                    IN  IF custom.ok
                        THEN Ok(Some(Prefix_Custom(custom.val)))
                        ELSE Err(CustomPrefixError(custom.err))
              [] ~value.pattern.some /\ ~value.prefix.some ->
                    Ok(Some(Prefix_Pattern(From_Pattern("Pattern::Bom"))))
              [] OTHER -> Err(ValidationError(GotBoth))
    IN  IF prefix.ok
        THEN Ok([cdx_extension |-> cdx_extension, prefix |-> unwrap_or_default(prefix.val)])
        ELSE Err(prefix.err)

\* impl TryFrom<OutputOptions> for config::OutputOptions
TryFrom_OutputOptions(value) ==
    LET cdx_extension ==
            CASE value.cdx_extension = Some(TRUE) -> CdxExtension_Included
              [] value.cdx_extension = Some(FALSE) -> CdxExtension_NotIncluded
              [] value.cdx_extension = None -> CdxExtension_default
        prefix ==
            CASE value.pattern.some /\ ~value.prefix.some ->
                    Ok(Some(Prefix_Pattern(From_Pattern(value.pattern.val))))
              [] ~value.pattern.some /\ value.prefix.some ->
                    LET custom == CustomPrefix_new(value.prefix.val)
                    IN  IF custom.ok
                        THEN Ok(Some(Prefix_Custom(custom.val)))
                        ELSE Err(CustomPrefixError(custom.err))
              [] ~value.pattern.some /\ ~value.prefix.some -> Ok(None)
              [] OTHER -> Err(ValidationError(GotBoth))
    IN  IF prefix.ok
        THEN Ok([cdx_extension |-> cdx_extension, prefix |-> unwrap_or_default(prefix.val)])
        ELSE Err(prefix.err)

\* impl TryFrom<TomlConfig> for SbomConfig
TryFrom_TomlConfig(value) ==
    LET output_options ==
            IF value.output_options.some
            THEN LET converted == TryFrom_OutputOptions(value.output_options.val)
                 IN  IF converted.ok THEN Ok(Some(converted.val)) ELSE Err(converted.err)
            ELSE Ok(None)
    IN  IF output_options.ok
        THEN Ok([format |-> value.format,
                 included_dependencies |->
                     IF value.included_dependencies.some
                     THEN Some(From_IncludedDependencies(value.included_dependencies.val))
                     ELSE None,
                 output_options |-> output_options.val])
        ELSE Err(output_options.err)

\* impl TryFrom<ConfigWrapper> for SbomConfig
TryFrom_ConfigWrapper(value) ==
    IF value.cyclonedx.some
    THEN TryFrom_TomlConfig(value.cyclonedx.val)
    ELSE Ok(SbomConfig_empty_config)

(***************************************************************************)
(* toml.rs: deserialization (serde derive) of a toml::Value.  A table is   *)
(* a record of its keys; a key the table does not have holds Missing.      *)
(* The error text of the toml crate is reduced to its cause.               *)
(***************************************************************************)
Missing == [kind |-> "Missing"]

Str(s) == [kind |-> "String", v |-> s]

Bool(b) == [kind |-> "Boolean", v |-> b]

Table(entries) == [kind |-> "Table", entries |-> entries]

\* A field of type Option<T>: an absent key is None; otherwise r, the outcome
\* of deserializing the node as T, is wrapped in Some.
Deserialize_Option(node, r) ==
    IF node = Missing
    THEN Ok(None)
    ELSE IF r.ok THEN Ok(Some(r.val)) ELSE Err(r.err)

Deserialize_bool(node) ==
    IF node.kind = "Boolean" THEN Ok(node.v = "true") ELSE Err("invalid type")

Deserialize_String(node) ==
    IF node.kind = "String" THEN Ok(node.v) ELSE Err("invalid type")

\* crate::format::Format: the literal "json" is Format::Json (toml.rs:218, 226).
Deserialize_Format(node) ==
    IF node.kind # "String" THEN Err("invalid type")
    ELSE IF node.v = "json" THEN Ok("Format::Json")
    ELSE Err("unknown variant")

\* enum IncludedDependencies with its serde renames
Deserialize_IncludedDependencies(node) ==
    IF node.kind # "String" THEN Err("invalid type")
    ELSE IF node.v = "top-level" THEN Ok("IncludedDependencies::TopLevelDependencies")
    ELSE IF node.v = "all" THEN Ok("IncludedDependencies::AllDependencies")
    ELSE Err("unknown variant")

\* enum Pattern, rename_all lowercase
Deserialize_Pattern(node) ==
    IF node.kind # "String" THEN Err("invalid type")
    ELSE IF node.v = "bom" THEN Ok("Pattern::Bom")
    ELSE IF node.v = "package" THEN Ok("Pattern::Package")
    ELSE Err("unknown variant")

\* struct OutputOptions: keys cdx, pattern, prefix
Deserialize_OutputOptions(node) ==
    IF node.kind # "Table" THEN Err("invalid type")
    ELSE LET cdx_extension == Deserialize_Option(node.entries.cdx,
                                                 Deserialize_bool(node.entries.cdx))
             pattern == Deserialize_Option(node.entries.pattern,
                                           Deserialize_Pattern(node.entries.pattern))
             prefix == Deserialize_Option(node.entries.prefix,
                                          Deserialize_String(node.entries.prefix))
         IN  IF ~cdx_extension.ok THEN Err(cdx_extension.err)
             ELSE IF ~pattern.ok THEN Err(pattern.err)
             ELSE IF ~prefix.ok THEN Err(prefix.err)
             ELSE Ok([cdx_extension |-> cdx_extension.val,
                      pattern |-> pattern.val,
                      prefix |-> prefix.val])

\* struct TomlConfig: keys format, included_dependencies, output_options
Deserialize_TomlConfig(node) ==
    IF node.kind # "Table" THEN Err("invalid type")
    ELSE LET format == Deserialize_Option(node.entries.format,
                                          Deserialize_Format(node.entries.format))
             included_dependencies ==
                 Deserialize_Option(node.entries.included_dependencies,
                                    Deserialize_IncludedDependencies(node.entries.included_dependencies))
             output_options ==
                 Deserialize_Option(node.entries.output_options,
                                    Deserialize_OutputOptions(node.entries.output_options))
         IN  IF ~format.ok THEN Err(format.err)
             ELSE IF ~included_dependencies.ok THEN Err(included_dependencies.err)
             ELSE IF ~output_options.ok THEN Err(output_options.err)
             ELSE Ok([format |-> format.val,
                      included_dependencies |-> included_dependencies.val,
                      output_options |-> output_options.val])

\* As under #[serde(deny_unknown_fields)]: another key is an error.
Deserialize_ConfigWrapper_deny_unknown(node) ==
    IF node.kind # "Table" THEN Err("invalid type")
    ELSE IF node.entries.notourpackage # Missing THEN Err("unknown field")
    ELSE LET cyclonedx == Deserialize_Option(node.entries.cyclonedx,
                                             Deserialize_TomlConfig(node.entries.cyclonedx))
         IN  IF ~cyclonedx.ok THEN Err(cyclonedx.err)
             ELSE Ok([cyclonedx |-> cyclonedx.val])

\* struct ConfigWrapper: the key cyclonedx; every other key is skipped.
Deserialize_ConfigWrapper(node) ==
    IF node.kind # "Table" THEN Err("invalid type")
    ELSE LET cyclonedx == Deserialize_Option(node.entries.cyclonedx,
                                             Deserialize_TomlConfig(node.entries.cyclonedx))
         IN  IF ~cyclonedx.ok THEN Err(cyclonedx.err)
             ELSE Ok([cyclonedx |-> cyclonedx.val])

\* The absent value is handed to the deserializer instead of being defaulted.
config_from_toml_none_err(value) ==
    LET wrapper == IF value.some THEN Deserialize_ConfigWrapper(value.val)
                   ELSE Err("invalid type")
    IN  IF wrapper.ok
        THEN TryFrom_ConfigWrapper(wrapper.val)
        ELSE Err(TomlError(wrapper.err))

\* pub fn config_from_toml
config_from_toml(value) ==
    IF value.some
    THEN LET wrapper == Deserialize_ConfigWrapper(value.val)
         IN  IF wrapper.ok
             THEN TryFrom_ConfigWrapper(wrapper.val)
             ELSE Err(TomlError(wrapper.err))
    ELSE Ok(SbomConfig_empty_config)

(***************************************************************************)
(* Inputs of the resolver                                                  *)
(***************************************************************************)
PrefixStrings == {"tacos", ""}

CdxExtensions == {CdxExtension_Included, CdxExtension_NotIncluded}

\* Every value of toml::OutputOptions.
OutputOptionsValues ==
    [cdx_extension : {None, Some(TRUE), Some(FALSE)},
     pattern : {None, Some("Pattern::Bom"), Some("Pattern::Package")},
     prefix : {None} \cup {Some(s) : s \in PrefixStrings}]

\* Raw nodes: for each key its absence, its well-typed values and an ill-typed
\* or unknown one.
RawCdx == {Missing, Bool("true"), Bool("false"), Str("bom")}

RawPattern == {Missing, Str("bom"), Str("package"), Str("tacos")}

RawPrefix == {Missing} \cup {Str(s) : s \in PrefixStrings}

RawOutputOptions ==
    {Missing, Str("tacos")} \cup
    {Table([cdx |-> c, pattern |-> p, prefix |-> x]) :
        c \in RawCdx, p \in RawPattern, x \in RawPrefix}

RawFormat == {Missing, Str("json"), Str("tacos")}

RawIncludedDependencies == {Missing, Str("top-level"), Str("all"), Str("tacos")}

RawCyclonedx ==
    {Missing, Str("tacos")} \cup
    {Table([format |-> f, included_dependencies |-> d, output_options |-> o]) :
        f \in RawFormat, d \in RawIncludedDependencies, o \in RawOutputOptions}

\* The section of another tool (toml.rs:281-286), with any output_options.
RawOtherSection ==
    {Missing} \cup
    {Table([format |-> Str("json"), included_dependencies |-> Str("top-level"),
            output_options |-> o]) : o \in RawOutputOptions}

RawValues ==
    {None, Some(Str("tacos"))} \cup
    {Some(Table([cyclonedx |-> c, notourpackage |-> o])) :
        c \in RawCyclonedx, o \in RawOtherSection}

(***************************************************************************)
(* SpecOpts: one conversion of toml::OutputOptions                         *)
(***************************************************************************)
InitOpts ==
    /\ pc = "start"
    /\ options \in OutputOptionsValues
    /\ optionsResult = Idle
    /\ validPrefixes \in SUBSET PrefixStrings
    /\ cdxDefault \in CdxExtensions
    /\ lhs = Idle /\ rhs = Idle /\ merged = Idle
    /\ xs = Idle /\ idx = Idle /\ acc = Idle
    /\ ctx = Idle /\ parentOf = Idle /\ added = Idle
    /\ raw = Idle /\ tomlResult = Idle

ResolveOutputOptions ==
    /\ pc = "start"
    /\ optionsResult' = TryFrom_OutputOptions(options)
    /\ pc' = "done"
    /\ UNCHANGED <<options, mergeVars, foldVars, ctxVars, tomlVars, envVars>>

NextOpts == ResolveOutputOptions

SpecOpts == InitOpts /\ [][NextOpts]_vars

(***************************************************************************)
(* SpecToml: one call of config_from_toml                                  *)
(***************************************************************************)
InitToml ==
    /\ pc = "start"
    /\ raw \in RawValues
    /\ tomlResult = Idle
    /\ validPrefixes \in SUBSET PrefixStrings
    /\ cdxDefault \in CdxExtensions
    /\ lhs = Idle /\ rhs = Idle /\ merged = Idle
    /\ xs = Idle /\ idx = Idle /\ acc = Idle
    /\ ctx = Idle /\ parentOf = Idle /\ added = Idle
    /\ options = Idle /\ optionsResult = Idle

ConfigFromToml ==
    /\ pc = "start"
    /\ tomlResult' = config_from_toml(raw)
    /\ pc' = "done"
    /\ UNCHANGED <<raw, mergeVars, foldVars, ctxVars, optsVars, envVars>>

NextToml == ConfigFromToml

SpecToml == InitToml /\ [][NextToml]_vars

(***************************************************************************)
(* Properties                                                              *)
(***************************************************************************)

\* C1: converting output options that have both pattern and prefix present
\* returns ValidationError("OutputOptions can contain either prefix or
\* pattern, got both"), whatever the pattern, the prefix (accepted by the
\* prefix-validity check or not) and the cdx flag; never a configuration and
\* never a CustomPrefixError.
C1_BothIsValidationError ==
    (pc = "done" /\ options.pattern.some /\ options.prefix.some)
        => optionsResult = Err(ValidationError(GotBoth))

\* The case of the test with a prefix the validity check accepts.
C1_Witness ==
    /\ pc = "done"
    /\ options.pattern = Some("Pattern::Bom")
    /\ options.prefix = Some("tacos")
    /\ "tacos" \in validPrefixes
    /\ ~optionsResult.ok

\* C2: Passed is a two-sided identity of merge: merge(Passed, a) = a and
\* merge(a, Passed) = a for every a, the reasons of a unchanged.
C2_PassedIsIdentity ==
    pc = "done" =>
        /\ lhs = Passed => merged = rhs
        /\ rhs = Passed => merged = lhs

C2_Witness ==
    /\ pc = "done"
    /\ lhs = Passed
    /\ IsFailed(rhs)
    /\ Len(rhs.reasons) >= 2
    /\ rhs.reasons[1] # rhs.reasons[2]

\* C3: merge of Failed(r1) and Failed(r2) is Failed with r1 followed by r2:
\* the length is |r1| + |r2| and every reason keeps its place.
C3_FailedConcatenates ==
    (pc = "done" /\ IsFailed(lhs) /\ IsFailed(rhs)) =>
        /\ IsFailed(merged)
        /\ Len(merged.reasons) = Len(lhs.reasons) + Len(rhs.reasons)
        /\ \A i \in 1..Len(lhs.reasons) : merged.reasons[i] = lhs.reasons[i]
        /\ \A j \in 1..Len(rhs.reasons) :
              merged.reasons[Len(lhs.reasons) + j] = rhs.reasons[j]

\* Two different reasons on the left, and on the right a duplicate of the first.
C3_Witness ==
    /\ pc = "done"
    /\ IsFailed(lhs) /\ IsFailed(rhs)
    /\ Len(lhs.reasons) >= 2 /\ Len(rhs.reasons) >= 1
    /\ lhs.reasons[1] # lhs.reasons[2]
    /\ rhs.reasons[1] = lhs.reasons[1]

\* C4: config_from_toml(None) returns Ok(SbomConfig::empty_config()), never an error.
C4_AbsentIsDefault ==
    (pc = "done" /\ raw = None) => tomlResult = Ok(SbomConfig_empty_config)

C4_Witness ==
    /\ pc = "done"
    /\ raw = None
    /\ tomlResult.ok

\* C5: a table without the key cyclonedx but with another top-level section,
\* whatever that section holds, resolves to the same default configuration
\* as an absent value.
C5_OtherSectionIgnored ==
    (/\ pc = "done"
     /\ raw.some
     /\ raw.val.kind = "Table"
     /\ raw.val.entries.cyclonedx = Missing
     /\ raw.val.entries.notourpackage # Missing)
        => (tomlResult.ok /\ tomlResult = config_from_toml(None))

\* The other section sets both pattern and prefix (toml.rs:285).
C5_Witness ==
    /\ pc = "done"
    /\ raw.some
    /\ raw.val.kind = "Table"
    /\ raw.val.entries.cyclonedx = Missing
    /\ raw.val.entries.notourpackage # Missing
    /\ raw.val.entries.notourpackage.entries.output_options =
           Table([cdx |-> Bool("true"), pattern |-> Str("bom"), prefix |-> Str("")])
    /\ tomlResult.ok

\* C6: exactly one of pattern and prefix selects that mode: a pattern alone
\* gives the named pattern (Bom for bom, Package for package) with the
\* extension Included for cdx = true and NotIncluded for cdx = false; a prefix
\* alone that passes the validity check gives that custom prefix.
C6_ExactlyOneSelects ==
    pc = "done" =>
        /\ (options.pattern.some /\ ~options.prefix.some) =>
              /\ optionsResult.ok
              /\ options.pattern.val = "Pattern::Bom" =>
                    optionsResult.val.prefix = Prefix_Pattern("config::Pattern::Bom")
              /\ options.pattern.val = "Pattern::Package" =>
                    optionsResult.val.prefix = Prefix_Pattern("config::Pattern::Package")
              /\ options.cdx_extension = Some(TRUE) =>
                    optionsResult.val.cdx_extension = CdxExtension_Included
              /\ options.cdx_extension = Some(FALSE) =>
                    optionsResult.val.cdx_extension = CdxExtension_NotIncluded
        /\ (~options.pattern.some /\ options.prefix.some
                /\ options.prefix.val \in validPrefixes) =>
              /\ optionsResult.ok
              /\ optionsResult.val.prefix.kind = "Custom"
              /\ optionsResult.val.prefix.prefix.custom_prefix = options.prefix.val

\* The case of the test it_should_convert_to_config_output_options, with the
\* default extension being the other variant.
C6_Witness ==
    /\ pc = "done"
    /\ options = [cdx_extension |-> Some(TRUE), pattern |-> Some("Pattern::Bom"), prefix |-> None]
    /\ cdxDefault = CdxExtension_NotIncluded
    /\ optionsResult.ok

NonEmptyIfFailed(r) == IsFailed(r) => r.reasons # <<>>

EmptyFailed(r) == IsFailed(r) /\ r.reasons = <<>>

\* C8 as stated: over any operands and any sequence of merge calls, merge
\* never returns Failed with an empty reasons list.
C8_NeverEmptyFailed == ~EmptyFailed(acc)

\* C8 as amended: merge returns Failed with an empty reasons list exactly
\* when some operand is Failed and no operand carries a reason; so operands
\* that are all Passed or Failed with a reason give such a result.
C8_EmptyFailedOnlyFromEmptyFailed ==
    /\ EmptyFailed(acc) <=>
          /\ \E j \in 1..idx : IsFailed(xs[j])
          /\ \A j \in 1..idx : IsFailed(xs[j]) => xs[j].reasons = <<>>
    /\ (\A j \in 1..idx : NonEmptyIfFailed(xs[j])) => NonEmptyIfFailed(acc)

C8_Witness ==
    /\ idx = Len(xs)
    /\ idx >= 3
    /\ \A j \in 1..idx : NonEmptyIfFailed(xs[j])
    /\ xs[1] = Passed
    /\ IsFailed(xs[2])
    /\ IsFailed(xs[3])
    /\ IsFailed(acc)

\* The reasons of the Failed results among the first n of s, in order.
RECURSIVE ReasonsOfFirst(_, _)
ReasonsOfFirst(s, n) ==
    IF n = 0
    THEN <<>>
    ELSE ReasonsOfFirst(s, n - 1) \o (IF IsFailed(s[n]) THEN s[n].reasons ELSE <<>>)

\* C9: the left fold of merge from Passed is Passed exactly when every
\* sub-result merged so far is Passed, and is otherwise Failed with the
\* reasons of all the Failed sub-results in sequence order.
C9_FoldCollectsAll ==
    /\ acc = Passed <=> \A j \in 1..idx : xs[j] = Passed
    /\ acc # Passed => (IsFailed(acc) /\ acc.reasons = ReasonsOfFirst(xs, idx))

\* A failure first, a pass, then a failure with another reason.
C9_Witness ==
    /\ idx = Len(xs)
    /\ idx >= 3
    /\ IsFailed(xs[1]) /\ xs[1].reasons # <<>>
    /\ xs[2] = Passed
    /\ IsFailed(xs[3]) /\ xs[3].reasons # <<>>
    /\ xs[3].reasons[1] # xs[1].reasons[1]

\* C10: every context made by extension is its parent's components followed
\* by the components added, the parent (and the root) staying as they were;
\* so a context holds nothing of a sibling's extension.
C10_ExtensionIsFresh ==
    /\ ctx[1] = ValidationContext_default
    /\ \A n \in 2..Len(ctx) : ctx[n] = ctx[parentOf[n]] \o added[n]

\* Two different extensions of one parent that is not the root.
C10_Witness ==
    \E n, m \in 2..Len(ctx) :
        /\ n # m
        /\ parentOf[n] = parentOf[m]
        /\ parentOf[n] # 1
        /\ ctx[parentOf[n]] # <<>>
        /\ added[n] # <<>> /\ added[m] # <<>>
        /\ added[n] # added[m]

====
